---- MODULE Spec2Model ----
(***************************************************************************)
(* Quality control of a network of temperature sensors                     *)
(* (GaSimonet/NETATMO_BOLZANO): the seasonal-threshold filter, the buddy   *)
(* check, the spatial-temporal consistency test, the daily/monthly         *)
(* completeness filter and the sequential pipeline chaining them.          *)
(*                                                                         *)
(* Conventions.  A grid is a sequence (time) of sequences (station);       *)
(* Python's 0-based index i is i+1 here.  Temperatures, altitudes and      *)
(* coordinates are integers; NaN is one reserved integer outside every     *)
(* value set, and every comparison and sum treats it as IEEE-754 does      *)
(* (a comparison with NaN is false, a sum with NaN is NaN).  Rational      *)
(* parameters are numerator/denominator pairs and every floating-point     *)
(* comparison is decided exactly by cross-multiplication; the parameter    *)
(* sets keep clear of the ties where binary rounding could differ.         *)
(* An instant is a whole number of hours since 2025-01-01T00:00; the       *)
(* years 2025..2027 are not leap years.                                    *)
(***************************************************************************)
EXTENDS Integers, Sequences, FiniteSets, TLC

VARIABLES pc, ds, params, results, locals, args, ret

vars == <<pc, ds, params, results, locals, args, ret>>

-----------------------------------------------------------------------------
(* Generic helpers                                                         *)

NaN == 9999

IsNaN(x) == x = NaN

Abs(x) == IF x < 0 THEN -x ELSE x

Min2(a, b) == IF a <= b THEN a ELSE b

Max2(a, b) == IF a >= b THEN a ELSE b

RECURSIVE SumOver(_, _)
SumOver(S, f) ==
    IF S = {} THEN 0
    ELSE LET x == CHOOSE y \in S : TRUE
         IN  f[x] + SumOver(S \ {x}, f)

SetMax(S) == CHOOSE x \in S : \A y \in S : y <= x

SetMin(S) == CHOOSE x \in S : \A y \in S : x <= y

Put(f, k, v) == (k :> v) @@ f

NTimes(grid) == Len(grid)

NStations(grid) == Len(grid[1])

Cells(grid) == { <<t, s>> : t \in 1..NTimes(grid), s \in 1..NStations(grid) }

\* values < limit, values > limit on floats: false when the value is NaN
Lt(x, y) == ~IsNaN(x) /\ ~IsNaN(y) /\ x < y

Gt(x, y) == ~IsNaN(x) /\ ~IsNaN(y) /\ x > y

\* np.sum(~np.isnan(row))
CountValid(row) == Cardinality({ s \in 1..Len(row) : ~IsNaN(row[s]) })

\* np.sum(~np.isnan(grid))
CountValidGrid(grid) == Cardinality({ c \in Cells(grid) : ~IsNaN(grid[c[1]][c[2]]) })

\* np.sum(~mask)
CountFalse(mask) == Cardinality({ c \in Cells(mask) : ~mask[c[1]][c[2]] })

\* np.ones_like(grid, dtype=bool)
OnesLike(grid) == [t \in 1..NTimes(grid) |-> [s \in 1..NStations(grid) |-> TRUE]]

\* The array with elements f[1], ..., f[n], filled element by element as
\* the loops of the source fill theirs (each element is computed once).
RECURSIVE Filled(_, _)
Filled(f, n) == IF n = 0 THEN <<>> ELSE Append(Filled(f, n - 1), f[n])

\* the same for a grid of nt rows and ns columns
FilledGrid(g, nt, ns) == Filled([t \in 1..nt |-> Filled(g[t], ns)], nt)

-----------------------------------------------------------------------------
(* Calendar: what pandas derives from a timestamp                          *)

DaysBeforeMonth == <<0, 31, 59, 90, 120, 151, 181, 212, 243, 273, 304, 334>>

DaysInMonthTable == <<31, 28, 31, 30, 31, 30, 31, 31, 30, 31, 30, 31>>

\* .dt.date: the calendar day, as a day number since the epoch
DateOf(h) == h \div 24

\* .dt.year
YearOf(h) == 2025 + (DateOf(h) \div 365)

\* .dt.month
MonthOf(h) ==
    LET doy == DateOf(h) % 365
    IN  Cardinality({ m \in 1..12 : DaysBeforeMonth[m] <= doy })

\* pd.Period(year, month, freq='M').days_in_month
DaysInMonth(year, month) == DaysInMonthTable[month]

\* (a - b).days for instants a >= b
TimedeltaDays(a, b) == (a - b) \div 24

\* len(pd.date_range(a, b, freq='D')) for instants a <= b
DateRangeLen(a, b) == ((b - a) \div 24) + 1

-----------------------------------------------------------------------------
(* check_seasonal_thresholds                                               *)

SeasonOf(month) ==
    CASE month \in {12, 1, 2} -> "DJF"
      [] month \in {3, 4, 5}  -> "MAM"
      [] month \in {6, 7, 8}  -> "JJA"
      [] month \in {9, 10, 11} -> "SON"

\* values < limits['min'] for one cell
BelowMinInclusive(v, lo) == ~IsNaN(v) /\ ~IsNaN(lo) /\ v <= lo

BelowMin(v, lo) == Lt(v, lo)

\* values > limits['max'] for one cell
AboveMax(v, hi) == Gt(v, hi)

\* (seasons == season).any()
SeasonPresent(dates, season) ==
    \E t \in 1..Len(dates) : SeasonOf(MonthOf(dates[t])) = season

\* The loop over season_thresholds.items(): every pass ANDs into flags, so
\* the result is the conjunction over the configured seasons.
check_seasonal_thresholds(values, dates, season_thresholds) ==
    FilledGrid(
      [t \in 1..NTimes(values) |-> [s \in 1..NStations(values) |->
        \A season \in DOMAIN season_thresholds :
            LET limits == season_thresholds[season]
                season_mask == SeasonOf(MonthOf(dates[t])) = season
            IN  SeasonPresent(dates, season) =>
                  /\ ("min" \in DOMAIN limits =>
                        ~(BelowMin(values[t][s], limits["min"]) /\ season_mask))
                  /\ ("max" \in DOMAIN limits =>
                        ~(AboveMax(values[t][s], limits["max"]) /\ season_mask))]],
      NTimes(values), NStations(values))

\* T[~flags] = np.nan on a copy of the grid
MaskGridInverted(grid, flags) ==
    [t \in 1..NTimes(grid) |-> [s \in 1..NStations(grid) |->
        IF flags[t][s] THEN NaN ELSE grid[t][s]]]

MaskGrid(grid, flags) ==
    [t \in 1..NTimes(grid) |-> [s \in 1..NStations(grid) |->
        IF flags[t][s] THEN grid[t][s] ELSE NaN]]

-----------------------------------------------------------------------------
(* filter_by_completeness_temporal                                         *)
(* min_completeness is given in hundredths: valid / expected < mc / 100    *)
(* is decided as valid * 100 < mc * expected.                              *)

expected_obs == 24

TimeSet(times) == { times[t] : t \in 1..Len(times) }

\* the rows of one calendar day (group.index of the daily groupby)
DayGroup(times, day) == { t \in 1..Len(times) : DateOf(times[t]) = day }

DaysIn(times, rows) == { DateOf(times[t]) : t \in rows }

\* np.sum(group['flags'])
valid_obs(flags, rows, station) ==
    Cardinality({ t \in rows : flags[t][station] })

RatioBelowOrEqual(num, den, mc) == num * 100 <= mc * den

\* num / den < min_completeness
RatioBelow(num, den, mc) == num * 100 < mc * den

DayObsCadence(flags, times, station, day, mc) ==
    RatioBelow(valid_obs(flags, DayGroup(times, day), station),
               Cardinality(DayGroup(times, day)), mc)

\* valid_obs / expected_obs < min_completeness
DayIncomplete(flags, times, station, day, mc) ==
    RatioBelow(valid_obs(flags, DayGroup(times, day), station), expected_obs, mc)

MonthlyAlways(times) == TRUE

\* (times_pd.max() - times_pd.min()).days >= 30
MonthlyCheckEnabled(times) ==
    TimedeltaDays(SetMax(TimeSet(times)), SetMin(TimeSet(times))) >= 30

MonthKey(h) == <<YearOf(h), MonthOf(h)>>

\* the rows of one (year, month) (group.index of the monthly groupby)
MonthGroup(times, ym) == { t \in 1..Len(times) : MonthKey(times[t]) = ym }

expected_days(times, ym) ==
    LET grp == { times[t] : t \in MonthGroup(times, ym) }
    IN  Min2(DaysInMonth(ym[1], ym[2]), DateRangeLen(SetMin(grp), SetMax(grp)))

\* group.groupby(date)['flags'].any().sum()
valid_days(flags, times, station, ym) ==
    Cardinality({ d \in DaysIn(times, MonthGroup(times, ym)) :
        \E t \in MonthGroup(times, ym) : DateOf(times[t]) = d /\ flags[t][station] })

MonthIncompleteAfterDaily(flags, times, station, ym, mc) ==
    LET kept == [t \in 1..Len(times) |-> [s \in DOMAIN flags[t] |->
                    flags[t][s] /\ ~DayIncomplete(flags, times, s, DateOf(times[t]), mc)]]
    IN  RatioBelow(valid_days(kept, times, station, ym), expected_days(times, ym), mc)

\* valid_days / expected_days < min_completeness
MonthIncomplete(flags, times, station, ym, mc) ==
    RatioBelow(valid_days(flags, times, station, ym), expected_days(times, ym), mc)

InitOutputOnes(flags) == OnesLike(flags)

\* output_flags = flags.copy()
InitOutputFlags(flags) == flags

AllDays(times) == DaysIn(times, 1..Len(times))

AllMonths(times) == { MonthKey(times[t]) : t \in 1..Len(times) }

\* the body of the loop over stations, with the guard of the monthly check
\* already decided
CompletenessLoop(data, flags, times, mc, monthly) ==
    LET stations == 1..NStations(data)
        FlaggedDay(s, d) == DayIncomplete(flags, times, s, d, mc)
        FlaggedMonth(s, ym) == monthly /\ MonthIncomplete(flags, times, s, ym, mc)
    IN  [flags |->
            FilledGrid([t \in 1..NTimes(data) |-> [s \in stations |->
                           /\ InitOutputFlags(flags)[t][s]
                           /\ ~FlaggedDay(s, DateOf(times[t]))
                           /\ ~FlaggedMonth(s, MonthKey(times[t]))]],
                       NTimes(data), NStations(data)),
         stats |->
            [days_flagged |->
                Cardinality({ sd \in stations \X AllDays(times) : FlaggedDay(sd[1], sd[2]) }),
             months_flagged |->
                Cardinality({ sm \in stations \X AllMonths(times) : FlaggedMonth(sm[1], sm[2]) }),
             stations_with_flagged_days |->
                Cardinality({ s \in stations : \E d \in AllDays(times) : FlaggedDay(s, d) }),
             stations_with_flagged_months |->
                Cardinality({ s \in stations : \E ym \in AllMonths(times) : FlaggedMonth(s, ym) })]]

filter_by_completeness_temporal(data, flags, times, min_completeness) ==
    IF MonthlyCheckEnabled(times)
    THEN CompletenessLoop(data, flags, times, min_completeness, TRUE)
    ELSE CompletenessLoop(data, flags, times, min_completeness, FALSE)

-----------------------------------------------------------------------------
(* Station geometry.  Longitudes and latitudes are whole thousandths of a  *)
(* degree from a local origin; the station sets used keep every pairwise   *)
(* distance a whole number, so that the square roots are exact.            *)

StationIdx(values) == 1..Len(values)

RECURSIVE SortedSeq(_)
SortedSeq(S) ==
    IF S = {} THEN <<>>
    ELSE <<SetMin(S)>> \o SortedSeq(S \ {SetMin(S)})

RECURSIVE SeqSum(_)
SeqSum(q) == IF q = <<>> THEN 0 ELSE Head(q) + SeqSum(Tail(q))

RECURSIVE SeqProd(_)
SeqProd(q) == IF q = <<>> THEN 1 ELSE Head(q) * SeqProd(Tail(q))

ISqrt(n) == CHOOSE r \in 0..n : r * r = n

\* proj.transform_points(pc, lons, lats): UTM zone 33 near 46.5 N, 11.3 E,
\* linearised (77 m and 111 m to the thousandth of a degree)
ProjectX(lon) == 77 * lon

ProjectY(lat) == 111 * lat

\* squared planar distance between two stations, in square metres
PlanarDist2(lats, lons, i, j) ==
    (ProjectX(lons[i]) - ProjectX(lons[j])) * (ProjectX(lons[i]) - ProjectX(lons[j]))
    + (ProjectY(lats[i]) - ProjectY(lats[j])) * (ProjectY(lats[i]) - ProjectY(lats[j]))

\* np.sqrt((lons[j] - lons[i])**2 + (lats[j] - lats[i])**2)
GeoDist(lats, lons, i, j) ==
    IF lats[i] = lats[j] THEN Abs(lons[i] - lons[j])
    ELSE IF lons[i] = lons[j] THEN Abs(lats[i] - lats[j])
    ELSE ISqrt((lons[i] - lons[j]) * (lons[i] - lons[j])
               + (lats[i] - lats[j]) * (lats[i] - lats[j]))

\* tree.query_ball_point(point of i, r): the stations within r, i included,
\* in index order
BallPlanar(lats, lons, i, r) ==
    { j \in 1..Len(lons) : r >= 0 /\ PlanarDist2(lats, lons, i, j) <= r * r }

BallGeo(lats, lons, i, r) ==
    { j \in 1..Len(lons) : r >= 0 /\ GeoDist(lats, lons, i, j) <= r }

NoVariance(q) == 0

\* n * sum(x^2) - (sum x)^2 = n^2 * np.std(x)^2
ScaledVariance(q) ==
    Len(q) * SeqSum([k \in 1..Len(q) |-> q[k] * q[k]]) - SeqSum(q) * SeqSum(q)

-----------------------------------------------------------------------------
(* buddy_check: returns the suspect mask of one timestep                   *)

\* neighbours of i: within radius, not i, not missing, and within
\* max_elev_diff when that is positive
BuddyNeighbours(lats, lons, alts, values, i, p) ==
    LET near == { j \in BallPlanar(lats, lons, i, p.radius) \ {i} : ~IsNaN(values[j]) }
        kept == IF p.max_elev_diff > 0
                THEN { j \in near : Abs(alts[j] - alts[i]) <= p.max_elev_diff }
                ELSE near
    IN  SortedSeq(kept)

BuddyDeviatesInclusive(alts, values, i, nb, p) ==
    LET n == Len(nb)
        gn == p.elev_gradient.n
        gd == p.elev_gradient.d
        corr == [k \in 1..n |-> gd * values[nb[k]] + gn * (alts[nb[k]] - alts[i])]
        X == SeqSum([k \in 1..n |-> gd * values[i] - corr[k]])
        W == ScaledVariance(corr)
        floor == n * gd * p.min_std.n
        lhs == (p.min_std.d * Abs(X)) * (p.min_std.d * Abs(X))
        rhs == Max2(p.min_std.d * p.min_std.d * W, floor * floor)
    IN  IF n = 0 THEN FALSE
        ELSE IF p.threshold < 0 THEN TRUE
        ELSE lhs >= p.threshold * p.threshold * rhs

\* abs(values[i] - mean) > threshold * max(std, min_std), with the neighbour
\* values corrected by elev_gradient * (alts[j] - alts[i])
BuddyDeviates(alts, values, i, nb, p) ==
    LET n == Len(nb)
        gn == p.elev_gradient.n
        gd == p.elev_gradient.d
        corr == [k \in 1..n |-> gd * values[nb[k]] + gn * (alts[nb[k]] - alts[i])]
        X == SeqSum([k \in 1..n |-> gd * values[i] - corr[k]])
        W == ScaledVariance(corr)
        floor == n * gd * p.min_std.n
        lhs == (p.min_std.d * Abs(X)) * (p.min_std.d * Abs(X))
        rhs == Max2(p.min_std.d * p.min_std.d * W, floor * floor)
    IN  IF n = 0 THEN FALSE
        ELSE IF p.threshold < 0 THEN TRUE
        ELSE lhs > p.threshold * p.threshold * rhs

BuddySuspectLenient(lats, lons, alts, values, i, p) ==
    LET nb == BuddyNeighbours(lats, lons, alts, values, i, p)
    IN  IF Len(nb) < p.num_min THEN FALSE
        ELSE BuddyDeviates(alts, values, i, nb, p)

\* the body of the loop over stations for a station with a value
BuddySuspect(lats, lons, alts, values, i, p) ==
    LET nb == BuddyNeighbours(lats, lons, alts, values, i, p)
    IN  IF Len(nb) < p.num_min THEN TRUE
        ELSE BuddyDeviates(alts, values, i, nb, p)

BuddyPassPropagating(lats, lons, alts, values, flags, p) ==
    LET left == [j \in StationIdx(values) |-> IF flags[j] THEN NaN ELSE values[j]]
    IN  Filled([i \in StationIdx(values) |->
                   IF IsNaN(values[i]) THEN flags[i]
                   ELSE flags[i] \/ BuddySuspect(lats, lons, alts, left, i, p)],
               Len(values))

\* one pass of the outer loop: flags are only ever set
BuddyPass(lats, lons, alts, values, flags, p) ==
    Filled([i \in StationIdx(values) |->
               IF IsNaN(values[i]) THEN flags[i]
               ELSE flags[i] \/ BuddySuspect(lats, lons, alts, values, i, p)],
           Len(values))

RECURSIVE BuddyIterate(_, _, _, _, _, _, _)
BuddyIterate(k, lats, lons, alts, values, flags, p) ==
    IF k <= 0 THEN flags
    ELSE BuddyIterate(k - 1, lats, lons, alts, values,
                      BuddyPass(lats, lons, alts, values, flags, p), p)

buddy_check(lats, lons, alts, values, p) ==
    BuddyIterate(p.num_iterations, lats, lons, alts, values,
                 Filled([i \in StationIdx(values) |-> IsNaN(values[i])], Len(values)), p)

-----------------------------------------------------------------------------
(* spatial_temporal_consistency_test: returns (flags, temporal_flags) of   *)
(* one timestep, or raises when np.average is given no neighbour.          *)
(* obs_to_check and tree are left at None by every caller.                 *)

\* abs(values[idx] - other[idx]) > temporal_threshold
TemporalJump(v, w, threshold) ==
    ~IsNaN(v) /\ ~IsNaN(w) /\ Abs(v - w) > threshold

TemporalFlags(values, prev_values, next_values, p) ==
    Filled([idx \in StationIdx(values) |->
               \/ TemporalJump(values[idx], prev_values[idx], p.temporal_threshold)
               \/ TemporalJump(values[idx], next_values[idx], p.temporal_threshold)],
           Len(values))

\* np.where(obs_to_check & ~processed)[0]
Unprocessed(processed) ==
    SortedSeq({ i \in DOMAIN processed : ~processed[i] })

SctCandidatesWithFlagged(lats, lons, idx, flags, p) ==
    SortedSeq({ i \in BallGeo(lats, lons, idx, p.outer_radius) : i # idx })

\* the neighbours within outer_radius, without idx and the flagged stations
SctCandidates(lats, lons, idx, flags, p) ==
    SortedSeq({ i \in BallGeo(lats, lons, idx, p.outer_radius) : i # idx /\ ~flags[i] })

\* the elevation filter
SctElevationFilter(alts, idx, cand, p) ==
    LET Keep(i) == /\ Abs(alts[idx] - alts[i]) >= p.min_elev_diff
                   /\ Abs(alts[idx] - alts[i]) <= p.max_elev_diff
    IN  SelectSeq(cand, Keep)

\* np.argsort(distances)[:num_max]: the num_max nearest, ties in list order
SctNearest(lats, lons, idx, nb, p) ==
    LET d == [k \in 1..Len(nb) |-> GeoDist(lats, lons, idx, nb[k])]
        rank == [k \in 1..Len(nb) |->
                    Cardinality({ j \in 1..Len(nb) :
                        d[j] < d[k] \/ (d[j] = d[k] /\ j < k) })]
    IN  IF Len(nb) > p.num_max
        THEN [r \in 1..Max2(p.num_max, 0) |->
                 nb[CHOOSE k \in 1..Len(nb) : rank[k] = r - 1]]
        ELSE nb

SctNeighbours(lats, lons, alts, idx, flags, p) ==
    SctNearest(lats, lons, idx,
               SctElevationFilter(alts, idx, SctCandidates(lats, lons, idx, flags, p), p), p)

\* deviation > pos_threshold * analysis_error or
\* deviation < -neg_threshold * analysis_error, for a non-empty neighbour
\* list: background is the 1 / (distance + eps) weighted mean plus
\* mean(alts[nb] - alts[idx]) * vertical_scale, analysis_error is np.std
SctDeviates(lats, lons, alts, values, idx, nb, p) ==
    LET n == Len(nb)
        q == [k \in 1..n |-> GeoDist(lats, lons, idx, nb[k]) * p.eps.d + p.eps.n]
        P == [k \in 1..n |-> SeqProd([j \in 1..n |-> IF j = k THEN 1 ELSE q[j]])]
        D == SeqSum(P)
        vals == [k \in 1..n |-> values[nb[k]]]
        E == SeqSum([k \in 1..n |-> alts[nb[k]] - alts[idx]])
        \* Num / (D * n * vd) is the deviation
        Num == n * p.vertical_scale.d
                 * SeqSum([k \in 1..n |-> (values[idx] - vals[k]) * P[k]])
               - E * p.vertical_scale.n * D
        W == ScaledVariance(vals)
        \* x > c * sqrt(W) for c >= 0
        Exceeds(x, c) == x > 0 /\ x * x > c * c * W
        posB == p.pos_threshold.n * D * p.vertical_scale.d
        negB == p.neg_threshold.n * D * p.vertical_scale.d
    IN  IF IsNaN(values[idx]) \/ \E k \in 1..n : IsNaN(vals[k]) THEN FALSE
        ELSE \/ Exceeds(Num * p.pos_threshold.d, posB)
             \/ Exceeds(-(Num * p.neg_threshold.d), negB)

SctSkipFlagging(st, idx) ==
    [st EXCEPT !.flags[idx] = TRUE, !.processed[idx] = TRUE, !.queue = Tail(st.queue)]

SctSkipUnmarked(st, idx) ==
    [st EXCEPT !.queue = Tail(st.queue)]

\* lines 98-101: too few candidates, the station is marked processed and
\* dropped from the head of idx_to_process
SctSkip(st, idx) ==
    [st EXCEPT !.processed[idx] = TRUE, !.queue = Tail(st.queue)]

MarkOnlySelf(lats, lons, processed, idx, p) ==
    [processed EXCEPT ![idx] = TRUE]

\* lines 133-135: processed[idx] = True; processed[inner_neighbors] = True
MarkProcessed(lats, lons, processed, idx, p) ==
    LET inner == BallGeo(lats, lons, idx, p.inner_radius)
    IN  Filled([i \in DOMAIN processed |-> processed[i] \/ i = idx \/ i \in inner],
               Len(processed))

\* One trip through the while loop.  st = [flags, processed, queue, error].
SctStep(lats, lons, alts, values, temporal_flags, st, p) ==
    LET idx == Head(st.queue)
        cand == SctCandidates(lats, lons, idx, st.flags, p)
        nb == SctNeighbours(lats, lons, alts, idx, st.flags, p)
        suspect == \/ SctDeviates(lats, lons, alts, values, idx, nb, p)
                   \/ temporal_flags[idx]
        flags2 == [st.flags EXCEPT ![idx] = st.flags[idx] \/ suspect]
        processed2 == MarkProcessed(lats, lons, st.processed, idx, p)
    IN  IF Len(cand) < p.num_min
        THEN SctSkip(st, idx)
        ELSE IF Len(nb) = 0
        THEN [st EXCEPT !.error = TRUE]
        ELSE [flags |-> flags2, processed |-> processed2,
              queue |-> Unprocessed(processed2), error |-> FALSE]

RECURSIVE SctWhile(_, _, _, _, _, _, _)
SctWhile(lats, lons, alts, values, temporal_flags, st, p) ==
    IF st.error \/ st.queue = <<>> THEN st
    ELSE SctWhile(lats, lons, alts, values, temporal_flags,
                  SctStep(lats, lons, alts, values, temporal_flags, st, p), p)

RECURSIVE SctIterate(_, _, _, _, _, _, _, _)

SctIterateFlagsInside(k, lats, lons, alts, values, temporal_flags, st, p) ==
    IF k <= 0 \/ st.error THEN st
    ELSE SctIterate(k - 1, lats, lons, alts, values, temporal_flags,
                    SctWhile(lats, lons, alts, values, temporal_flags,
                             [st EXCEPT !.queue = Unprocessed(st.processed),
                                        !.flags = [i \in DOMAIN st.flags |-> FALSE]],
                             p), p)

\* for _ in range(num_iterations): processed is carried from one pass to
\* the next
SctIterate(k, lats, lons, alts, values, temporal_flags, st, p) ==
    IF k <= 0 \/ st.error THEN st
    ELSE SctIterate(k - 1, lats, lons, alts, values, temporal_flags,
                    SctWhile(lats, lons, alts, values, temporal_flags,
                             [st EXCEPT !.queue = Unprocessed(st.processed)], p), p)

spatial_temporal_consistency_test(lats, lons, alts, values, prev_values, next_values, p) ==
    LET temporal_flags == TemporalFlags(values, prev_values, next_values, p)
        none == Filled([i \in StationIdx(values) |-> FALSE], Len(values))
        st0 == [flags |-> none, processed |-> none, queue |-> <<>>, error |-> FALSE]
        st == SctIterate(p.num_iterations, lats, lons, alts, values,
                         temporal_flags, st0, p)
    IN  [flags |-> st.flags, temporal_flags |-> temporal_flags, error |-> st.error]

-----------------------------------------------------------------------------
(* Inputs shared by the specifications                                     *)

Idle == <<>>

\* strictly increasing time axes of length n over a pool of instants
TimeAxes(pool, n) ==
    { a \in [1..n -> pool] : \A i \in 1..n : \A j \in 1..n : i < j => a[i] < a[j] }

Jan15 == 14 * 24

Jul15 == 195 * 24 + 12

Dec15 == 348 * 24 + 6

-----------------------------------------------------------------------------
(* Spec: run_sequential_qc_pipeline, one action per stage of the function. *)
(* The dataset is a grid over three stations on an east-west line about    *)
(* 1 km apart; every cell holds the base value except at most MaxDeviant   *)
(* cells, which are missing or hold the deviant value.                     *)

PipeTimes == 3

MaxDeviant == 2

BaseValue == 10

DeviantValues == {NaN, 25}

\* Jan 15 00h, Jul 15 12h, Jul 15 13h and Jul 16 12h of 2025: the deviant
\* value is outside the winter range and inside the summer range
PipeInstants == {Jan15, Jul15, Jul15 + 1, Jul15 + 24}

Layouts ==
    { [latitude |-> <<0, 0, 0>>, longitude |-> <<0, 13, 26>>,
       altitude |-> <<250, 250, 250>>],
      [latitude |-> <<0, 0, 0>>, longitude |-> <<0, 13, 26>>,
       altitude |-> <<250, 252, 260>>] }

PipeStationIds == 1..3

PipeCells == (1..PipeTimes) \X PipeStationIds

PipeGrids ==
    UNION { { [t \in 1..PipeTimes |-> [s \in PipeStationIds |->
                 IF <<t, s>> \in dev THEN a[<<t, s>>] ELSE BaseValue]] :
              a \in [dev -> DeviantValues] } :
            dev \in { d \in SUBSET PipeCells : Cardinality(d) <= MaxDeviant } }

\* the thresholds of run_qc.py
RunSeasonThresholds ==
    [DJF |-> [min |-> -30, max |-> 20], MAM |-> [min |-> -10, max |-> 30],
     JJA |-> [min |-> 0, max |-> 40], SON |-> [min |-> -10, max |-> 30]]

PipeConfigs ==
    { [season_thresholds |-> RunSeasonThresholds,
       buddy_params |-> [radius |-> 5000, num_min |-> 2, threshold |-> 3,
                         max_elev_diff |-> 400, elev_gradient |-> [n |-> 0, d |-> 1],
                         min_std |-> [n |-> 1, d |-> 10], num_iterations |-> 1],
       sct_params |-> [inner_radius |-> 15, outer_radius |-> 30, num_min |-> 2,
                       num_max |-> 2, pos_threshold |-> [n |-> 1, d |-> 2],
                       neg_threshold |-> [n |-> 1, d |-> 2], min_elev_diff |-> 0,
                       max_elev_diff |-> 200, vertical_scale |-> [n |-> 1, d |-> 1],
                       temporal_threshold |-> 3, eps |-> [n |-> 100, d |-> 1],
                       num_iterations |-> 1]],
      [season_thresholds |-> RunSeasonThresholds,
       buddy_params |-> [radius |-> 1500, num_min |-> 1, threshold |-> 3,
                         max_elev_diff |-> 5, elev_gradient |-> [n |-> -1, d |-> 10],
                         min_std |-> [n |-> 1, d |-> 10], num_iterations |-> 2],
       sct_params |-> [inner_radius |-> 0, outer_radius |-> 30, num_min |-> 1,
                       num_max |-> 1, pos_threshold |-> [n |-> 1, d |-> 2],
                       neg_threshold |-> [n |-> 1, d |-> 2], min_elev_diff |-> 1,
                       max_elev_diff |-> 9, vertical_scale |-> [n |-> 1, d |-> 1],
                       temporal_threshold |-> 3, eps |-> [n |-> 100, d |-> 1],
                       num_iterations |-> 2]] }

PipeThresholds == {4, 8}

Init ==
    /\ pc = "start"
    /\ \E grid \in PipeGrids : \E axis \in TimeAxes(PipeInstants, PipeTimes) :
       \E layout \in Layouts :
          ds = [temperature |-> grid, time |-> axis, latitude |-> layout.latitude,
                longitude |-> layout.longitude, altitude |-> layout.altitude]
    /\ \E cfg \in PipeConfigs : \E mc \in PipeThresholds :
          params = [season_thresholds |-> cfg.season_thresholds,
                    buddy_params |-> cfg.buddy_params,
                    sct_params |-> cfg.sct_params,
                    min_completeness |-> mc]
    /\ results = [flags |-> <<>>, data |-> <<>>, masks |-> <<>>, statistics |-> <<>>]
    /\ locals = <<>>
    /\ args = Idle /\ ret = Idle

\* results[part][key] = value
Store(res, part, key, value) ==
    [res EXCEPT ![part] = Put(res[part], key, value)]

SkipCompletenessMask(T, completeness_flags) == T

\* T_lvlK[~completeness_flags_lvlK] = np.nan
ApplyCompletenessMask(T, completeness_flags) == MaskGrid(T, completeness_flags)

\* the completeness step after a level: the level's grid and flags are
\* replaced, the statistics stored
CompletenessStep(res, level, flags, stats_key) ==
    LET c == filter_by_completeness_temporal(res.data[level], flags, ds.time,
                                             params.min_completeness)
    IN  Store(Store(Store(res, "data", level,
                          ApplyCompletenessMask(res.data[level], c.flags)),
                    "flags", level, c.flags),
              "statistics", stats_key, c.stats)

TemperatureView(dataset, T_lvl1) == T_lvl1

\* ds.temperature.values once T_lvl1[~seasonal_flags] = np.nan has run:
\* T_lvl1 is ds.temperature.values.copy(), so the write does not reach it
TemperatureValues(dataset, T_lvl1) == dataset.temperature

\* lines 54-69: T_lvl0 stored, seasonal flags, T_lvl1
Level1Seasonal ==
    /\ pc = "start"
    /\ LET seasonal_flags == check_seasonal_thresholds(ds.temperature, ds.time,
                                                       params.season_thresholds)
           T_lvl1 == MaskGrid(ds.temperature, seasonal_flags)
       IN  /\ results' = Store(Store(Store(results, "data", "T_lvl0", ds.temperature),
                                     "flags", "T_lvl1", seasonal_flags),
                               "data", "T_lvl1", T_lvl1)
           /\ locals' = Put(locals, "seasonal_flags", seasonal_flags)
           /\ ds' = [ds EXCEPT !.temperature = TemperatureValues(ds, T_lvl1)]
    /\ pc' = "lvl1"
    /\ UNCHANGED <<params, args, ret>>

\* lines 71-84
Level1Completeness ==
    /\ pc = "lvl1"
    /\ results' = CompletenessStep(results, "T_lvl1", locals.seasonal_flags,
                                   "completeness_lvl1")
    /\ pc' = "lvl1c"
    /\ UNCHANGED <<ds, params, locals, args, ret>>

BuddyFlagsEveryTimestep(T_lvl1) ==
    FilledGrid(
      [t \in 1..NTimes(T_lvl1) |->
        LET suspect == buddy_check(ds.latitude, ds.longitude, ds.altitude,
                                   T_lvl1[t], params.buddy_params)
        IN  Filled([s \in StationIdx(T_lvl1[t]) |-> ~suspect[s]], Len(T_lvl1[t]))],
      NTimes(T_lvl1), NStations(T_lvl1))

\* lines 88-100: the buddy check of every timestep with enough values
BuddyFlags(T_lvl1) ==
    FilledGrid(
      [t \in 1..NTimes(T_lvl1) |->
        IF CountValid(T_lvl1[t]) >= params.buddy_params.num_min
        THEN LET suspect == buddy_check(ds.latitude, ds.longitude, ds.altitude,
                                        T_lvl1[t], params.buddy_params)
             IN  Filled([s \in StationIdx(T_lvl1[t]) |-> ~suspect[s]], Len(T_lvl1[t]))
        ELSE [s \in StationIdx(T_lvl1[t]) |-> TRUE]],
      NTimes(T_lvl1), NStations(T_lvl1))

Level2StartFromRaw(dataset, T_lvl1) == dataset.temperature

\* T_lvl2 = T_lvl1.copy()
Level2Start(dataset, T_lvl1) == T_lvl1

Level1BeforeCompleteness(res, loc) == MaskGrid(res.data.T_lvl0, loc.seasonal_flags)

\* the grid the buddy loop reads: T_lvl1 as the completeness step left it
Level2Input(res, loc) == res.data.T_lvl1

\* lines 86-106
Level2Buddy ==
    /\ pc = "lvl1c"
    /\ LET buddy_flags == BuddyFlags(Level2Input(results, locals))
           T_lvl2 == MaskGrid(Level2Start(ds, results.data.T_lvl1), buddy_flags)
       IN  /\ results' = Store(Store(results, "data", "T_lvl2", T_lvl2),
                               "flags", "T_lvl2", buddy_flags)
           /\ locals' = Put(locals, "buddy_flags", buddy_flags)
    /\ pc' = "lvl2"
    /\ UNCHANGED <<ds, params, args, ret>>

\* lines 108-121
Level2Completeness ==
    /\ pc = "lvl2"
    /\ results' = CompletenessStep(results, "T_lvl2", locals.buddy_flags,
                                   "completeness_lvl2")
    /\ pc' = "lvl2c"
    /\ UNCHANGED <<ds, params, locals, args, ret>>

NaNRow(grid) == [s \in 1..NStations(grid) |-> NaN]

RolledValues(grid) ==
    [t \in 1..NTimes(grid) |-> IF t = 1 THEN grid[NTimes(grid)] ELSE grid[t - 1]]

\* np.roll(T_lvl2, 1, axis=0) with row 0 set to NaN
PrevValues(grid) ==
    [t \in 1..NTimes(grid) |-> IF t = 1 THEN NaNRow(grid) ELSE grid[t - 1]]

\* np.roll(T_lvl2, -1, axis=0) with the last row set to NaN
NextValues(grid) ==
    [t \in 1..NTimes(grid) |-> IF t = NTimes(grid) THEN NaNRow(grid) ELSE grid[t + 1]]

\* the loop over timesteps: for each one, whether the consistency test ran
\* and what it returned
SctResults(T_lvl2) ==
    Filled([t \in 1..NTimes(T_lvl2) |->
               IF CountValid(T_lvl2[t]) >= params.sct_params.num_min
               THEN [ran |-> TRUE,
                     out |-> spatial_temporal_consistency_test(
                                 ds.latitude, ds.longitude, ds.altitude, T_lvl2[t],
                                 PrevValues(T_lvl2)[t], NextValues(T_lvl2)[t],
                                 params.sct_params)]
               ELSE [ran |-> FALSE, out |-> <<>>]],
           NTimes(T_lvl2))

SctRaises(r) == \E t \in 1..Len(r) : r[t].ran /\ r[t].out.error

\* sct_flags[t] = ~flags, or temporal_flags[t] = ~temp_flags, where the
\* test ran; all true elsewhere
GoodFlags(T_lvl2, r, field) ==
    FilledGrid([t \in 1..NTimes(T_lvl2) |-> [s \in 1..NStations(T_lvl2) |->
                   IF r[t].ran THEN ~r[t].out[field][s] ELSE TRUE]],
               NTimes(T_lvl2), NStations(T_lvl2))

FirstMask(a, b) == a

\* sct_flags & temporal_flags
AndMasks(a, b) ==
    [t \in 1..Len(a) |-> [s \in DOMAIN a[t] |-> a[t][s] /\ b[t][s]]]

\* lines 123-158, when no timestep raises
Level3Stct ==
    /\ pc = "lvl2c"
    /\ LET T_lvl2 == results.data.T_lvl2
           r == SctResults(T_lvl2)
           sct_flags == GoodFlags(T_lvl2, r, "flags")
           temporal_flags == GoodFlags(T_lvl2, r, "temporal_flags")
           combined_flags == AndMasks(sct_flags, temporal_flags)
       IN  /\ ~SctRaises(r)
           /\ results' = Store(Store(results, "data", "T_lvl3",
                                     MaskGrid(T_lvl2, combined_flags)),
                               "flags", "T_lvl3", combined_flags)
           /\ locals' = Put(Put(Put(locals, "sct_flags", sct_flags),
                                "temporal_flags", temporal_flags),
                            "combined_flags", combined_flags)
    /\ pc' = "lvl3"
    /\ UNCHANGED <<ds, params, args, ret>>

\* lines 135-149, when np.average raises in some timestep: the exception
\* leaves run_sequential_qc_pipeline and no result is returned
Level3Raises ==
    /\ pc = "lvl2c"
    /\ SctRaises(SctResults(results.data.T_lvl2))
    /\ pc' = "raised"
    /\ UNCHANGED <<ds, params, results, locals, args, ret>>

\* lines 160-173
Level3Completeness ==
    /\ pc = "lvl3"
    /\ results' = CompletenessStep(results, "T_lvl3", locals.combined_flags,
                                   "completeness_lvl3")
    /\ pc' = "lvl3c"
    /\ UNCHANGED <<ds, params, locals, args, ret>>

\* lines 175-192
Statistics ==
    /\ pc = "lvl3c"
    /\ results' =
          [results EXCEPT !.statistics =
              [completeness |-> results.statistics.completeness_lvl3,
               total_values |-> NTimes(ds.temperature) * NStations(ds.temperature),
               values_per_level |->
                   [T_lvl0 |-> CountValidGrid(results.data.T_lvl0),
                    T_lvl1 |-> CountValidGrid(results.data.T_lvl1),
                    T_lvl2 |-> CountValidGrid(results.data.T_lvl2),
                    T_lvl3 |-> CountValidGrid(results.data.T_lvl3)],
               seasonal_flags |-> CountFalse(locals.seasonal_flags),
               buddy_flags |-> CountFalse(locals.buddy_flags),
               sct_flags |-> CountFalse(locals.sct_flags),
               temporal_flags |-> CountFalse(locals.temporal_flags)]
              @@ results.statistics]
    /\ pc' = "done"
    /\ UNCHANGED <<ds, params, locals, args, ret>>

Next ==
    \/ Level1Seasonal
    \/ Level1Completeness
    \/ Level2Buddy
    \/ Level2Completeness
    \/ Level3Stct
    \/ Level3Raises
    \/ Level3Completeness
    \/ Statistics

Spec == Init /\ [][Next]_vars

\* the level names of results['data']: LevelName[1] is T_lvl0
LevelName == <<"T_lvl0", "T_lvl1", "T_lvl2", "T_lvl3">>

Returned == pc = "done"

DataAt(k, c) == results.data[LevelName[k + 1]][c[1]][c[2]]

FlagAt(k, c) == results.flags[LevelName[k + 1]][c[1]][c[2]]

ResultCells == Cells(ds.temperature)

\* C1: in the returned result, a cell that is NaN in the grid of level k is
\* NaN in the grid of every later level: no step restores a value.
C1_DataMonotone ==
    Returned =>
        \A c \in ResultCells : \A k \in 0..2 : \A k2 \in (k + 1)..3 :
            IsNaN(DataAt(k, c)) => IsNaN(DataAt(k2, c))

\* a returned result in which one observed value was rejected at level 1
\* on a timestep the buddy check skipped, another was rejected only at
\* level 2 or later, and some value survives to level 3
C1_Witness ==
    /\ Returned
    /\ \E c \in ResultCells :
          /\ ~IsNaN(DataAt(0, c)) /\ IsNaN(DataAt(1, c)) /\ IsNaN(DataAt(3, c))
          /\ locals.buddy_flags[c[1]][c[2]]
    /\ \E c \in ResultCells : ~IsNaN(DataAt(1, c)) /\ IsNaN(DataAt(3, c))
    /\ \E c \in ResultCells : ~IsNaN(DataAt(3, c))

\* C2: in the returned result the flag masks only narrow: a cell whose
\* T_lvl1 flag is false has a false T_lvl2 flag, and a cell whose T_lvl2
\* flag is false has a false T_lvl3 flag.
C2_FlagsNarrow ==
    Returned =>
        \A c \in ResultCells : \A k \in 1..2 :
            ~FlagAt(k, c) => ~FlagAt(k + 1, c)

\* C3: at every level 1..3 of the returned result, a cell whose flag is
\* false is NaN in the grid of that level.
C3_RejectedIsNaN ==
    Returned =>
        \A c \in ResultCells : \A k \in 1..3 :
            ~FlagAt(k, c) => IsNaN(DataAt(k, c))

\* a returned result in which a value that passed the seasonal check was
\* rejected by the completeness step of level 1, a value that passed the
\* buddy check was rejected by the completeness step of level 2, and a
\* value that reached level 3 was rejected there
C3_Witness ==
    /\ Returned
    /\ \E c \in ResultCells :
          /\ ~IsNaN(DataAt(0, c)) /\ locals.seasonal_flags[c[1]][c[2]]
          /\ ~FlagAt(1, c) /\ IsNaN(DataAt(1, c))
    /\ \E c \in ResultCells :
          /\ ~IsNaN(DataAt(1, c)) /\ locals.buddy_flags[c[1]][c[2]]
          /\ ~FlagAt(2, c) /\ IsNaN(DataAt(2, c))
    /\ \E c \in ResultCells :
          /\ ~IsNaN(DataAt(2, c)) /\ ~FlagAt(3, c) /\ IsNaN(DataAt(3, c))

\* C4: at every level 1..3 of the returned result, a cell whose flag is
\* true holds a value: it is not NaN in the grid of that level.
C4_GoodFlagHasValue ==
    Returned =>
        \A c \in ResultCells : \A k \in 1..3 :
            FlagAt(k, c) => ~IsNaN(DataAt(k, c))

\* the grid each completeness step received: the previous grid with the
\* rejections of the level's own checks
GridBeforeCompleteness(k) ==
    CASE k = 1 -> MaskGrid(results.data.T_lvl0, locals.seasonal_flags)
      [] k = 2 -> MaskGrid(results.data.T_lvl1, locals.buddy_flags)
      [] k = 3 -> MaskGrid(results.data.T_lvl2, locals.combined_flags)

ResultDays == { DateOf(ds.time[t]) : t \in 1..Len(ds.time) }

PresentOnDay(grid, s, d) ==
    Cardinality({ t \in 1..Len(ds.time) :
                    DateOf(ds.time[t]) = d /\ ~IsNaN(grid[t][s]) })

\* C5: at each of the three completeness steps, a station-day whose grid
\* holds fewer than min_completeness x 24 non-NaN values when the step runs
\* has all of its values for that day NaN in the final grid of the level.
C5_CompletenessOverPresentValues ==
    Returned =>
        \A k \in 1..3 : \A s \in 1..NStations(ds.temperature) : \A d \in ResultDays :
            PresentOnDay(GridBeforeCompleteness(k), s, d) * 100
                    < params.min_completeness * expected_obs
                => \A t \in 1..Len(ds.time) :
                      DateOf(ds.time[t]) = d => IsNaN(DataAt(k, <<t, s>>))

\* C19: the level-3 mask before the completeness step keeps a cell only if
\* it is neither spatially nor temporally suspect, and the level-3 grid
\* holds no value where either mask rejects.
C19_BothMasksConsulted ==
    pc = "lvl3" =>
        \A c \in ResultCells :
            LET spatial_ok == locals.sct_flags[c[1]][c[2]]
                temporal_ok == locals.temporal_flags[c[1]][c[2]]
            IN  /\ FlagAt(3, c) => (spatial_ok /\ temporal_ok)
                /\ ~(spatial_ok /\ temporal_ok) => IsNaN(DataAt(3, c))

\* level 3 has run with a value rejected by the temporal mask alone and
\* a value rejected by the spatial mask alone
C19_Witness ==
    /\ pc = "lvl3"
    /\ \E c \in ResultCells :
          /\ ~IsNaN(DataAt(2, c)) /\ locals.sct_flags[c[1]][c[2]]
          /\ ~locals.temporal_flags[c[1]][c[2]] /\ IsNaN(DataAt(3, c))
    /\ \E c \in ResultCells :
          /\ ~IsNaN(DataAt(2, c)) /\ ~locals.sct_flags[c[1]][c[2]]
          /\ locals.temporal_flags[c[1]][c[2]] /\ IsNaN(DataAt(3, c))

\* C20: the buddy mask is the buddy check of the level-1 grid as the
\* level-1 completeness step left it, the level-3 masks are the
\* consistency test of the level-2 grid as the level-2 completeness step
\* left it (previous and next rows included), and the returned statistics
\* hold the result of a completeness step for each of the three levels.
C20_LevelOrdering ==
    /\ pc = "lvl2" => locals.buddy_flags = BuddyFlags(results.data.T_lvl1)
    /\ pc = "lvl3" =>
          LET r == SctResults(results.data.T_lvl2)
          IN  /\ locals.sct_flags = GoodFlags(results.data.T_lvl2, r, "flags")
              /\ locals.temporal_flags
                    = GoodFlags(results.data.T_lvl2, r, "temporal_flags")
    /\ Returned =>
          {"completeness_lvl1", "completeness_lvl2", "completeness_lvl3"}
              \subseteq DOMAIN results.statistics

\* the buddy check has run on a level-1 grid from which the completeness
\* step had removed values, and its mask differs from the one the grid
\* before that step would have given
C20_Witness ==
    /\ pc = "lvl2"
    /\ results.data.T_lvl1 # Level1BeforeCompleteness(results, locals)
    /\ locals.buddy_flags # BuddyFlags(Level1BeforeCompleteness(results, locals))

ClaimedJump(v, w) ==
    ~IsNaN(v) /\ ~IsNaN(w) /\ Abs(v - w) > params.sct_params.temporal_threshold

\* C26: at every timestep the consistency test ran on, a station is
\* temporally flagged if and only if its level-2 value differs by more than
\* temporal_threshold from its value one timestep earlier or one timestep
\* later; the first timestep is compared with no predecessor and the last
\* with no successor, so the value at the other end of the series never
\* flags them.
C26_TemporalIff ==
    pc = "lvl3" =>
        LET T_lvl2 == results.data.T_lvl2
            last == NTimes(T_lvl2)
        IN  \A t \in 1..last :
              CountValid(T_lvl2[t]) >= params.sct_params.num_min =>
                \A s \in 1..NStations(T_lvl2) :
                  ~locals.temporal_flags[t][s] <=>
                     \/ t > 1 /\ ClaimedJump(T_lvl2[t][s], T_lvl2[t - 1][s])
                     \/ t < last /\ ClaimedJump(T_lvl2[t][s], T_lvl2[t + 1][s])

\* the test ran on the first timestep; a station's first value is further
\* than the threshold from its last value and is not temporally flagged,
\* while the last one, which jumps from its predecessor, is
C26_Witness ==
    /\ pc = "lvl3"
    /\ LET T_lvl2 == results.data.T_lvl2
           last == NTimes(T_lvl2)
       IN  /\ CountValid(T_lvl2[1]) >= params.sct_params.num_min
           /\ CountValid(T_lvl2[last]) >= params.sct_params.num_min
           /\ \E s \in 1..NStations(T_lvl2) :
                 /\ ClaimedJump(T_lvl2[1][s], T_lvl2[last][s])
                 /\ locals.temporal_flags[1][s]
                 /\ ~locals.temporal_flags[last][s]

\* the number of stations with a value in a row of a grid
PresentIn(row) == Cardinality({ s \in DOMAIN row : ~IsNaN(row[s]) })

\* C30: a timestep with fewer than num_min values is not examined by the
\* buddy check: its level-2 mask, before the completeness step, is true for
\* every station and its level-2 row is the level-1 row.  Likewise for the
\* consistency test: both level-3 masks are true for every station and the
\* level-3 row is the level-2 row.
C30_SparseTimestepSkipped ==
    /\ pc = "lvl2" =>
          \A t \in 1..NTimes(results.data.T_lvl1) :
             PresentIn(results.data.T_lvl1[t]) < params.buddy_params.num_min =>
                /\ \A s \in DOMAIN locals.buddy_flags[t] : locals.buddy_flags[t][s]
                /\ results.data.T_lvl2[t] = results.data.T_lvl1[t]
    /\ pc = "lvl3" =>
          \A t \in 1..NTimes(results.data.T_lvl2) :
             PresentIn(results.data.T_lvl2[t]) < params.sct_params.num_min =>
                /\ \A s \in DOMAIN locals.sct_flags[t] :
                      locals.sct_flags[t][s] /\ locals.temporal_flags[t][s]
                /\ results.data.T_lvl3[t] = results.data.T_lvl2[t]

\* the buddy check has run on a timestep with three values and has left
\* alone a timestep with a single value, which is still there at level 2
C30_Witness ==
    /\ pc = "lvl2" /\ params.buddy_params.num_min = 2
    /\ \E t \in 1..NTimes(results.data.T_lvl1) :
          /\ PresentIn(results.data.T_lvl1[t]) = 1
          /\ PresentIn(results.data.T_lvl2[t]) = 1
    /\ \E t \in 1..NTimes(results.data.T_lvl1) :
          PresentIn(results.data.T_lvl1[t]) = NStations(results.data.T_lvl1)

-----------------------------------------------------------------------------
(* SpecAnyAxis: run_sequential_qc_pipeline called with a dataset whose     *)
(* time axis is any sequence of instants, increasing or not.  The function *)
(* has no statement that inspects the order of ds.time (lines 44-55), so   *)
(* the steps are those of Spec.                                            *)

AxisInstants == {Jan15, Jul15, Jul15 + 1}

AnyAxes == [1..PipeTimes -> AxisInstants]

\* the grids with at most one cell away from the base value
AxisGrids ==
    { grid \in PipeGrids :
        Cardinality({ c \in PipeCells : grid[c[1]][c[2]] # BaseValue }) <= 1 }

InitAnyAxis ==
    /\ pc = "start"
    /\ \E grid \in AxisGrids : \E axis \in AnyAxes : \E layout \in Layouts :
          ds = [temperature |-> grid, time |-> axis, latitude |-> layout.latitude,
                longitude |-> layout.longitude, altitude |-> layout.altitude]
    /\ \E cfg \in PipeConfigs : \E mc \in PipeThresholds :
          params = [season_thresholds |-> cfg.season_thresholds,
                    buddy_params |-> cfg.buddy_params,
                    sct_params |-> cfg.sct_params,
                    min_completeness |-> mc]
    /\ results = [flags |-> <<>>, data |-> <<>>, masks |-> <<>>, statistics |-> <<>>]
    /\ locals = <<>>
    /\ args = Idle /\ ret = Idle

SpecAnyAxis == InitAnyAxis /\ [][Next]_vars

StrictlyIncreasing(axis) ==
    \A t \in 1..(Len(axis) - 1) : axis[t] < axis[t + 1]

\* C22: a dataset whose time axis is not strictly increasing is refused
\* before any level is computed: the run does not get past its start, so
\* neither T_lvl1 nor any later level exists.
C22_BadAxisFatal ==
    ~StrictlyIncreasing(ds.time) => pc = "start"

-----------------------------------------------------------------------------
(* SpecSeasonal: check_seasonal_thresholds applied to a grid, the grid     *)
(* masked with the result as the pipeline does, and the filter applied a   *)
(* second time to the masked grid.                                         *)

SeasTimes == 2

SeasStationIds == {1, 2}

SeasValues == {NaN, -35, -30, 20, 21}

SeasInstants == {Jan15, Jul15, Dec15}

SeasConfigs ==
    { [DJF |-> [min |-> -30, max |-> 20], JJA |-> [min |-> 0, max |-> 40]],
      [DJF |-> [min |-> -30]],
      [JJA |-> [max |-> 20], MAM |-> [min |-> -10, max |-> 30]],
      [DJF |-> [max |-> 20], JJA |-> [min |-> -30]],
      <<>> }

InitSeasonal ==
    /\ pc = "call"
    /\ args \in [values : [1..SeasTimes -> [SeasStationIds -> SeasValues]],
                 dates : TimeAxes(SeasInstants, SeasTimes),
                 season_thresholds : SeasConfigs]
    /\ ret = Idle
    /\ ds = Idle /\ params = Idle /\ results = Idle /\ locals = Idle

\* seasonal_flags = check_seasonal_thresholds(...); T_lvl1[~seasonal_flags] = nan
ApplySeasonal ==
    /\ pc = "call"
    /\ LET flags == check_seasonal_thresholds(args.values, args.dates,
                                              args.season_thresholds)
       IN  ret' = [flags |-> flags, masked |-> MaskGrid(args.values, flags)]
    /\ pc' = "applied"
    /\ UNCHANGED <<args, ds, params, results, locals>>

\* the same thresholds and dates applied to the already-filtered grid
ReapplySeasonal ==
    /\ pc = "applied"
    /\ LET flags2 == check_seasonal_thresholds(ret.masked, args.dates,
                                               args.season_thresholds)
       IN  ret' = [flags |-> ret.flags, masked |-> ret.masked,
                   flags2 |-> flags2, masked2 |-> MaskGrid(ret.masked, flags2)]
    /\ pc' = "reapplied"
    /\ UNCHANGED <<args, ds, params, results, locals>>

NextSeasonal == ApplySeasonal \/ ReapplySeasonal

SpecSeasonal == InitSeasonal /\ [][NextSeasonal]_vars

\* the season the claim assigns to a calendar month
ClaimedSeason(month) ==
    IF month \in {12, 1, 2} THEN "DJF"
    ELSE IF month \in {3, 4, 5} THEN "MAM"
    ELSE IF month \in {6, 7, 8} THEN "JJA"
    ELSE "SON"

ClaimedReject(v, h, st) ==
    LET season == ClaimedSeason(MonthOf(h))
    IN  /\ season \in DOMAIN st
        /\ v # NaN
        /\ \/ "min" \in DOMAIN st[season] /\ v < st[season]["min"]
           \/ "max" \in DOMAIN st[season] /\ v > st[season]["max"]

\* C9: check_seasonal_thresholds returns false for a cell exactly when the
\* season of the cell's calendar month has a configured min above the value
\* or a configured max below it; bounds are inclusive, an unconfigured bound
\* or season constrains nothing, and only the own season's bounds apply.
C9_SeasonalIff ==
    pc \in {"applied", "reapplied"} =>
        \A t \in 1..SeasTimes : \A s \in SeasStationIds :
            (ret.flags[t][s] = FALSE) <=>
                ClaimedReject(args.values[t][s], args.dates[t], args.season_thresholds)

\* January -35 rejected by DJF min -30, July -35 rejected by JJA min 0, a
\* value at DJF min and one inside the JJA bounds accepted, in one call
C9_Witness ==
    /\ pc = "applied"
    /\ args.season_thresholds =
          [DJF |-> [min |-> -30, max |-> 20], JJA |-> [min |-> 0, max |-> 40]]
    /\ args.dates = <<Jan15, Jul15>>
    /\ args.values[1][1] = -35 /\ ~ret.flags[1][1]
    /\ args.values[2][1] = -35 /\ ~ret.flags[2][1]
    /\ args.values[1][2] = -30 /\ ret.flags[1][2]
    /\ args.values[2][2] = 20 /\ ret.flags[2][2]

\* C10: the seasonal filter is idempotent: applied to the grid it has
\* already masked, it rejects no retained value and the masked grid is
\* unchanged.
C10_SeasonalIdempotent ==
    pc = "reapplied" =>
        /\ \A t \in 1..SeasTimes : \A s \in SeasStationIds :
              ret.masked[t][s] # NaN => ret.flags2[t][s]
        /\ ret.masked2 = ret.masked

\* the first application rejected a value and retained another one
C10_Witness ==
    /\ pc = "reapplied"
    /\ \E t \in 1..SeasTimes : \E s \in SeasStationIds :
          args.values[t][s] # NaN /\ ~ret.flags[t][s]
    /\ \E t \in 1..SeasTimes : \E s \in SeasStationIds :
          ret.masked[t][s] # NaN /\ ret.flags2[t][s]

-----------------------------------------------------------------------------
(* SpecCompleteness: one call of filter_by_completeness_temporal.  The     *)
(* inputs are every mask over a short irregular time axis, and, over one   *)
(* full day of 24 hourly instants, the masks whose first or last k hours   *)
(* are true.                                                               *)

ComplTimes == 4

ComplStationIds == {1, 2}

\* Jan 1 00h, Jan 1 12h, Jan 25 00h, Jan 26 00h, Feb 1 00h of 2025 and
\* Jan 1 01h of 2026
ComplInstants == {0, 12, 576, 600, 744, 8761}

ComplThresholds == {0, 5, 10, 80, 100}

\* the 24 hourly instants of 2025-01-03
FullDayAxis == [t \in 1..24 |-> 47 + t]

FullDayColumns ==
    { [t \in 1..24 |-> t <= k] : k \in 0..24 } \cup
    { [t \in 1..24 |-> t > k] : k \in 0..24 }

\* a grid consistent with a mask: a value where the flag is true
GridOf(flags) ==
    [t \in 1..Len(flags) |-> [s \in DOMAIN flags[t] |->
        IF flags[t][s] THEN 10 ELSE NaN]]

InitCompleteness ==
    /\ pc = "call"
    /\ \/ \E times \in TimeAxes(ComplInstants, ComplTimes) :
          \E flags \in [1..ComplTimes -> [ComplStationIds -> BOOLEAN]] :
          \E mc \in ComplThresholds :
              args = [data |-> GridOf(flags), flags |-> flags, times |-> times,
                      min_completeness |-> mc]
       \/ \E cols \in [ComplStationIds -> FullDayColumns] :
          \E mc \in ComplThresholds :
              LET flags == [t \in 1..24 |-> [s \in ComplStationIds |-> cols[s][t]]]
              IN  args = [data |-> GridOf(flags), flags |-> flags,
                          times |-> FullDayAxis, min_completeness |-> mc]
    /\ ret = Idle
    /\ ds = Idle /\ params = Idle /\ results = Idle /\ locals = Idle

CallCompleteness ==
    /\ pc = "call"
    /\ ret' = filter_by_completeness_temporal(args.data, args.flags, args.times,
                                              args.min_completeness)
    /\ pc' = "returned"
    /\ UNCHANGED <<args, ds, params, results, locals>>

NextCompleteness == CallCompleteness

SpecCompleteness == InitCompleteness /\ [][NextCompleteness]_vars

ArgRows == 1..Len(args.times)

ArgDays == { args.times[t] \div 24 : t \in ArgRows }

\* the number of true input flags of a station on a calendar day
TrueOnDay(s, d) ==
    Cardinality({ t \in ArgRows : args.times[t] \div 24 = d /\ args.flags[t][s] })

\* (number of true input flags on the day) / 24 < min_completeness
BelowDaily(s, d) == TrueOnDay(s, d) * 100 < args.min_completeness * 24

ArgSpanDays ==
    (SetMax({ args.times[t] : t \in ArgRows }) -
     SetMin({ args.times[t] : t \in ArgRows })) \div 24

\* the input mask with the daily rejections only
DailyOnly ==
    [t \in ArgRows |-> [s \in ComplStationIds |->
        args.flags[t][s] /\ ~BelowDaily(s, args.times[t] \div 24)]]

\* C6: the daily check flags a station-day exactly when (true input flags
\* on that day) / 24 < min_completeness: every cell of a flagged day is
\* false in the output, the flagged days are counted in days_flagged, and a
\* day that is not flagged keeps its input flags (when no month is flagged).
C6_DailyIff ==
    pc = "returned" =>
        /\ \A s \in ComplStationIds : \A d \in ArgDays :
              BelowDaily(s, d) =>
                  \A t \in ArgRows : args.times[t] \div 24 = d => ~ret.flags[t][s]
        /\ ret.stats.days_flagged =
              Cardinality({ sd \in ComplStationIds \X ArgDays : BelowDaily(sd[1], sd[2]) })
        /\ ret.stats.stations_with_flagged_days =
              Cardinality({ s \in ComplStationIds : \E d \in ArgDays : BelowDaily(s, d) })
        /\ ret.stats.months_flagged = 0 =>
              \A s \in ComplStationIds : \A d \in ArgDays :
                  ~BelowDaily(s, d) =>
                      \A t \in ArgRows : args.times[t] \div 24 = d =>
                          ret.flags[t][s] = args.flags[t][s]

\* min_completeness = 1: a station with 24 true flags on the day keeps them,
\* a station with 23 loses all 23
C6_Witness ==
    /\ pc = "returned"
    /\ args.times = FullDayAxis
    /\ args.min_completeness = 100
    /\ TrueOnDay(1, 2) = 24 /\ \A t \in ArgRows : ret.flags[t][1]
    /\ TrueOnDay(2, 2) = 23 /\ \A t \in ArgRows : ~ret.flags[t][2]
    /\ ret.stats.days_flagged = 1

\* C7: filter_by_completeness_temporal never resurrects a rejected
\* observation: a true output flag was a true input flag.
C7_NoResurrection ==
    pc = "returned" =>
        \A t \in ArgRows : \A s \in ComplStationIds :
            ret.flags[t][s] => args.flags[t][s]

\* a day is flagged while a cell rejected on input belongs to a day and a
\* month that are kept
C7_Witness ==
    /\ pc = "returned"
    /\ ret.stats.days_flagged > 0
    /\ \E t \in ArgRows : \E s \in ComplStationIds :
          /\ ~args.flags[t][s]
          /\ \E u \in ArgRows :
                /\ args.times[u] \div 24 = args.times[t] \div 24
                /\ ret.flags[u][s]

\* C8: when the time span is under 30 days the monthly check is skipped:
\* no month is counted and the output is the input with the daily
\* rejections only.
C8_MonthlySkipped ==
    (pc = "returned" /\ ArgSpanDays < 30) =>
        /\ ret.stats.months_flagged = 0
        /\ ret.stats.stations_with_flagged_months = 0
        /\ ret.flags = DailyOnly

\* span of 25 days; station 1 is valid on one day out of an expected 26
\* (below 5 %), a month the check would flag if it ran, and keeps that day
C8_Witness ==
    /\ pc = "returned"
    /\ ArgSpanDays = 25
    /\ args.min_completeness = 5
    /\ TrueOnDay(1, 0) = 2
    /\ \A d \in ArgDays \ {0} : TrueOnDay(1, d) = 0
    /\ \E t \in ArgRows : ret.flags[t][1]
    /\ ret.stats.days_flagged > 0

ArgMonths == { MonthKey(args.times[t]) : t \in ArgRows }

RowsOfMonth(ym) == { t \in ArgRows : MonthKey(args.times[t]) = ym }

\* the calendar days of the month on which the station has a true input flag
InputValidDays(s, ym) ==
    { args.times[t] \div 24 : t \in { r \in RowsOfMonth(ym) : args.flags[r][s] } }

\* min(days in the month, days from the month's first to its last instant)
ClaimedExpectedDays(ym) ==
    LET inst == { args.times[t] : t \in RowsOfMonth(ym) }
    IN  Min2(DaysInMonth(ym[1], ym[2]), ((SetMax(inst) - SetMin(inst)) \div 24) + 1)

BelowMonthly(s, ym) ==
    Cardinality(InputValidDays(s, ym)) * 100
        < args.min_completeness * ClaimedExpectedDays(ym)

\* C28: when the time axis spans at least 30 days, a station-month whose
\* (days with at least one true flag in the input mask) / expected_days is
\* below min_completeness has every cell false in the output, and no other
\* month is rejected: a cell is true in the output exactly when it is true
\* in the input, its day passes the daily check and its month passes the
\* monthly check counted on the input mask, so a day the daily check
\* rejects in the same call still counts as a valid day.
C28_MonthlyFromInput ==
    (pc = "returned" /\ ArgSpanDays >= 30) =>
        /\ \A s \in ComplStationIds : \A t \in ArgRows :
              ret.flags[t][s] <=>
                  /\ args.flags[t][s]
                  /\ ~BelowDaily(s, args.times[t] \div 24)
                  /\ ~BelowMonthly(s, MonthKey(args.times[t]))
        /\ ret.stats.months_flagged =
              Cardinality({ sm \in ComplStationIds \X ArgMonths :
                              BelowMonthly(sm[1], sm[2]) })

\* a month is kept although, without a day that the daily check rejected in
\* this call, its valid days would be too few; another station's month is
\* rejected
C28_Witness ==
    /\ pc = "returned" /\ ArgSpanDays >= 30
    /\ \E s \in ComplStationIds : \E ym \in ArgMonths :
          LET lost == { d \in InputValidDays(s, ym) : BelowDaily(s, d) }
          IN  /\ lost # {}
              /\ ~BelowMonthly(s, ym)
              /\ (Cardinality(InputValidDays(s, ym)) - Cardinality(lost)) * 100
                    < args.min_completeness * ClaimedExpectedDays(ym)
              /\ \E t \in RowsOfMonth(ym) : ret.flags[t][s]
    /\ ret.stats.months_flagged > 0

-----------------------------------------------------------------------------
(* SpecBuddy: one call of buddy_check on the values of one timestep.  The  *)
(* stations lie on an east-west line, 13 thousandths of a degree (1 km)    *)
(* apart, or with the last one 6 km from the first; all at 250 m, or with  *)
(* the last one 10 m higher.                                               *)

BuddyStations == 3

BuddyValues == {NaN, 10, 11, 25}

BuddyLayouts ==
    { [latitude |-> [i \in 1..BuddyStations |-> 0],
       longitude |-> [i \in 1..BuddyStations |->
                        IF i = BuddyStations THEN last ELSE 13 * (i - 1)],
       altitude |-> [i \in 1..BuddyStations |->
                        IF i = BuddyStations THEN top ELSE 250]] :
      last \in {13 * (BuddyStations - 1), 78}, top \in {250, 260} }

BuddyParams ==
    [radius : {5000}, num_min : {1, 2, 3}, threshold : {1, 3},
     max_elev_diff : {-1, 5},
     elev_gradient : {[n |-> 0, d |-> 1], [n |-> -1, d |-> 10]},
     min_std : {[n |-> 0, d |-> 1], [n |-> 1, d |-> 10]},
     num_iterations : {1, 2}]

InitBuddy ==
    /\ pc = "call"
    /\ \E layout \in BuddyLayouts : \E values \in [1..BuddyStations -> BuddyValues] :
       \E p \in BuddyParams :
          args = [lats |-> layout.latitude, lons |-> layout.longitude,
                  alts |-> layout.altitude, values |-> values, p |-> p]
    /\ ret = Idle
    /\ ds = Idle /\ params = Idle /\ results = Idle /\ locals = Idle

CallBuddy ==
    /\ pc = "call"
    /\ ret' = buddy_check(args.lats, args.lons, args.alts, args.values, args.p)
    /\ pc' = "returned"
    /\ UNCHANGED <<ds, params, results, locals, args>>

NextBuddy == CallBuddy

SpecBuddy == InitBuddy /\ [][NextBuddy]_vars

\* the valid neighbours of station i, counted from the arguments: the
\* other stations with a value, within radius (metres on the projected
\* plane) and, when max_elev_diff > 0, within max_elev_diff of its elevation
ValidNeighbours(i) ==
    { j \in 1..Len(args.values) :
        /\ j # i /\ ~IsNaN(args.values[j])
        /\ 77 * Abs(args.lons[j] - args.lons[i]) <= args.p.radius
        /\ args.p.max_elev_diff > 0 =>
              Abs(args.alts[j] - args.alts[i]) <= args.p.max_elev_diff }

\* C11: a station with a value and fewer than num_min valid neighbours is
\* flagged suspect by buddy_check, whatever its value.
C11_FewNeighboursFlagged ==
    pc = "returned" =>
        \A i \in 1..Len(args.values) :
            (~IsNaN(args.values[i])
             /\ Cardinality(ValidNeighbours(i)) < args.p.num_min) => ret[i]

\* a call that returned with a station flagged for want of neighbours
\* although its value equals that of its only neighbour
C11_Witness ==
    /\ pc = "returned"
    /\ \E i \in 1..Len(args.values) : \E j \in 1..Len(args.values) :
          /\ ~IsNaN(args.values[i]) /\ ValidNeighbours(i) = {j}
          /\ args.values[j] = args.values[i] /\ args.p.num_min = 2 /\ ret[i]

\* the elevation-corrected neighbour values of station i, times the
\* denominator of elev_gradient
CorrectedValues(i) ==
    LET g == args.p.elev_gradient
    IN  [j \in ValidNeighbours(i) |->
            g.d * args.values[j] + g.n * (args.alts[j] - args.alts[i])]

EqualsNeighbourMean(i) ==
    /\ ~IsNaN(args.values[i])
    /\ Cardinality(ValidNeighbours(i)) >= args.p.num_min
    /\ SumOver(ValidNeighbours(i), CorrectedValues(i))
         = Cardinality(ValidNeighbours(i)) * args.p.elev_gradient.d * args.values[i]

\* C12: a station whose value equals the mean of the elevation-corrected
\* values of the neighbours used for it is not flagged by buddy_check, for
\* every positive threshold and every min_std >= 0.
C12_MeanNeverFlagged ==
    pc = "returned" =>
        \A i \in 1..Len(args.values) : EqualsNeighbourMean(i) => ~ret[i]

\* calls that returned with min_std = 0: one in which a station equals the
\* mean of identical neighbour values (std 0), or one in which the mean
\* is reached only through the elevation correction
C12_Witness ==
    /\ pc = "returned"
    /\ args.p.min_std.n = 0
    /\ \E i \in 1..Len(args.values) :
          /\ EqualsNeighbourMean(i) /\ ~ret[i]
          /\ \/ /\ Cardinality(ValidNeighbours(i)) = 2
                /\ \A j \in ValidNeighbours(i) : args.values[j] = args.values[i]
             \/ /\ args.p.elev_gradient.n # 0
                /\ \E j \in ValidNeighbours(i) : args.values[j] # args.values[i]

\* the scenario: three stations 1 km apart at one elevation, two reading
\* v and station k reading v + 15; threshold 3, radius 5000, num_min 2 and
\* the default min_std 0.1
OffsetScenario(k) ==
    /\ Len(args.values) = 3
    /\ args.lons = <<0, 13, 26>> /\ args.alts = <<250, 250, 250>>
    /\ \A i \in 1..3 : args.values[i] = IF i = k THEN 25 ELSE 10
    /\ args.p.threshold = 3 /\ args.p.radius = 5000 /\ args.p.num_min = 2
    /\ args.p.min_std = [n |-> 1, d |-> 10]

\* C13: in the scenario buddy_check flags exactly the offset station.
C13_OffsetScenario ==
    pc = "returned" =>
        \A k \in 1..3 : OffsetScenario(k) => \A i \in 1..3 : ret[i] <=> i = k

\* the scenario has run with the offset station in the middle
C13_Witness ==
    pc = "returned" /\ OffsetScenario(2) /\ ret = <<FALSE, TRUE, FALSE>>

\* buddy_check of the call's arguments with num_iterations = n
BuddyOutcome(n) ==
    buddy_check(args.lats, args.lons, args.alts, args.values,
                [args.p EXCEPT !.num_iterations = n])

\* C27: the verdict of buddy_check for a station with a value is a function
\* of the input values, positions and elevations alone: it is the verdict
\* obtained from all its neighbours with a value, flagged or not, and the
\* returned flags are the same for every num_iterations >= 1.
C27_NoPropagation ==
    pc = "returned" =>
        /\ \A n \in 1..(args.p.num_iterations + 1) : BuddyOutcome(n) = ret
        /\ \A i \in 1..Len(args.values) :
              ~IsNaN(args.values[i]) =>
                 (ret[i] <=> BuddySuspect(args.lats, args.lons, args.alts,
                                          args.values, i, args.p))

\* a call with two iterations returned; an unflagged station has exactly
\* num_min neighbours, one of which is a flagged station with a value
C27_Witness ==
    /\ pc = "returned" /\ args.p.num_iterations = 2
    /\ \E i \in 1..Len(args.values) : \E j \in 1..Len(args.values) :
          /\ ~IsNaN(args.values[i]) /\ ~ret[i]
          /\ ~IsNaN(args.values[j]) /\ ret[j]
          /\ j \in ValidNeighbours(i)
          /\ Cardinality(ValidNeighbours(i)) = args.p.num_min

-----------------------------------------------------------------------------
(* SpecSct: one call of spatial_temporal_consistency_test, one action per  *)
(* trip through its loops.  pc is "call", "for" (line 88), "while0" (line  *)
(* 91, first test of a pass), "while" (line 91, later tests), "returned"   *)
(* or "raised".  locals holds flags, processed, temporal_flags,            *)
(* idx_to_process and the number of the pass, and as a record of the run   *)
(* the stations popped so far and, among them, those evaluated.            *)

SctStations == 3

MaxIterations == 2

SctValues == {NaN, 10, 25}

SctLayouts ==
    { [latitude |-> [i \in 1..SctStations |-> 0],
       longitude |-> [i \in 1..SctStations |-> 13 * (i - 1)],
       altitude |-> [i \in 1..SctStations |->
                        IF i = SctStations THEN top ELSE 250]] :
      top \in {250, 255} }

SctParams ==
    [inner_radius : {0, 15}, outer_radius : {15, 30}, num_min : {1, 2},
     num_max : {1, 2}, pos_threshold : {[n |-> 1, d |-> 2]},
     neg_threshold : {[n |-> 1, d |-> 2]}, min_elev_diff : {0, 1},
     max_elev_diff : {9}, vertical_scale : {[n |-> 0, d |-> 1], [n |-> 1, d |-> 1]},
     temporal_threshold : {3}, eps : {[n |-> 100, d |-> 1]},
     num_iterations : 1..MaxIterations]

InitSct ==
    /\ pc = "call"
    /\ \E layout \in SctLayouts : \E values \in [1..SctStations -> SctValues] :
       \E before \in {NaN, 10} : \E p \in SctParams :
          args = [lats |-> layout.latitude, lons |-> layout.longitude,
                  alts |-> layout.altitude, values |-> values,
                  prev_values |-> [i \in 1..SctStations |-> before],
                  next_values |-> [i \in 1..SctStations |-> NaN], p |-> p]
    /\ ret = Idle
    /\ ds = Idle /\ params = Idle /\ results = Idle /\ locals = Idle

\* the loop state of the call as SctStep takes it
SctState ==
    [flags |-> locals.flags, processed |-> locals.processed,
     queue |-> locals.idx_to_process, error |-> FALSE]

\* lines 66-85: the masks are created and the temporal pass runs
SctEnter ==
    /\ pc = "call"
    /\ LET none == Filled([i \in StationIdx(args.values) |-> FALSE], Len(args.values))
       IN  locals' = [flags |-> none, processed |-> none,
                      temporal_flags |-> TemporalFlags(args.values, args.prev_values,
                                                       args.next_values, args.p),
                      idx_to_process |-> <<>>, pass |-> 0,
                      popped |-> {}, evaluated |-> {}]
    /\ pc' = "for"
    /\ UNCHANGED <<ds, params, results, args, ret>>

\* lines 88-89: the next pass begins
SctForNext ==
    /\ pc = "for"
    /\ locals.pass < args.p.num_iterations
    /\ locals' = [locals EXCEPT !.pass = @ + 1,
                                !.idx_to_process = Unprocessed(locals.processed)]
    /\ pc' = "while0"
    /\ UNCHANGED <<ds, params, results, args, ret>>

\* line 91, the queue is empty: the pass ends
SctWhileExit ==
    /\ pc \in {"while0", "while"}
    /\ locals.idx_to_process = <<>>
    /\ pc' = "for"
    /\ UNCHANGED <<ds, params, results, locals, args, ret>>

\* the branch the next trip through the while loop takes
SctBranch ==
    LET idx == Head(locals.idx_to_process)
    IN  IF Len(SctCandidates(args.lats, args.lons, idx, locals.flags, args.p))
              < args.p.num_min
        THEN "skip"
        ELSE IF Len(SctNeighbours(args.lats, args.lons, args.alts, idx,
                                  locals.flags, args.p)) = 0
        THEN "raise"
        ELSE "evaluate"

\* the loop state after the next trip, written back to the locals
SctAfterStep ==
    LET st == SctStep(args.lats, args.lons, args.alts, args.values,
                      locals.temporal_flags, SctState, args.p)
    IN  [locals EXCEPT !.flags = st.flags, !.processed = st.processed,
                       !.idx_to_process = st.queue,
                       !.popped = @ \cup {Head(locals.idx_to_process)}]

\* lines 92-101: too few candidates
SctSkipStation ==
    /\ pc \in {"while0", "while"}
    /\ locals.idx_to_process # <<>>
    /\ SctBranch = "skip"
    /\ locals' = SctAfterStep
    /\ pc' = "while"
    /\ UNCHANGED <<ds, params, results, args, ret>>

\* lines 92-136: the station is compared with its neighbours
SctEvaluateStation ==
    /\ pc \in {"while0", "while"}
    /\ locals.idx_to_process # <<>>
    /\ SctBranch = "evaluate"
    /\ locals' = [SctAfterStep EXCEPT
                     !.evaluated = @ \cup {Head(locals.idx_to_process)}]
    /\ pc' = "while"
    /\ UNCHANGED <<ds, params, results, args, ret>>

\* line 118: np.average over an empty neighbour list raises
SctRaise ==
    /\ pc \in {"while0", "while"}
    /\ locals.idx_to_process # <<>>
    /\ SctBranch = "raise"
    /\ pc' = "raised"
    /\ UNCHANGED <<ds, params, results, locals, args, ret>>

\* line 138
SctReturn ==
    /\ pc = "for"
    /\ locals.pass >= args.p.num_iterations
    /\ ret' = [flags |-> locals.flags, temporal_flags |-> locals.temporal_flags]
    /\ pc' = "returned"
    /\ UNCHANGED <<ds, params, results, locals, args>>

NextSct ==
    \/ SctEnter
    \/ SctForNext
    \/ SctWhileExit
    \/ SctSkipStation
    \/ SctEvaluateStation
    \/ SctRaise
    \/ SctReturn

SpecSct == InitSct /\ [][NextSct]_vars

\* the call as one evaluation, with num_iterations = n
SctOutcome(n) ==
    spatial_temporal_consistency_test(args.lats, args.lons, args.alts, args.values,
                                      args.prev_values, args.next_values,
                                      [args.p EXCEPT !.num_iterations = n])

SctIdx == 1..Len(args.values)

\* C14: the stations flagged with num_iterations = n are among those
\* flagged with num_iterations = n + 1, for the same inputs and parameters.
C14_IterationsOnlyAdd ==
    pc = "returned" =>
        LET more == SctOutcome(args.p.num_iterations + 1)
        IN  /\ ~more.error
            /\ \A i \in SctIdx : ret.flags[i] => more.flags[i]

\* a call with num_iterations = 1 returned with a station flagged and
\* another not flagged
C14_Witness ==
    /\ pc = "returned" /\ args.p.num_iterations = 1
    /\ \E i \in SctIdx : ret.flags[i]
    /\ \E i \in SctIdx : ~ret.flags[i] /\ ~IsNaN(args.values[i])

\* C15: processed is reset between iterations: every pass starts with no
\* station processed.
C15_ProcessedReset ==
    pc = "while0" => \A i \in SctIdx : ~locals.processed[i]

\* the not-yet-flagged stations other than idx within outer_radius,
\* counted from the arguments (the stations lie on one parallel)
UnflaggedNear(idx) ==
    { j \in SctIdx : /\ j # idx /\ ~locals.flags[j]
                     /\ Abs(args.lons[j] - args.lons[idx]) <= args.p.outer_radius }

\* C16: when the popped station has fewer than num_min not-yet-flagged
\* neighbours within outer_radius, the step marks it processed, leaves its
\* flag false and changes the processed and flag state of no other station.
C16_SkipStep ==
    [][(/\ pc \in {"while0", "while"}
        /\ locals.idx_to_process # <<>>
        /\ Cardinality(UnflaggedNear(Head(locals.idx_to_process))) < args.p.num_min)
       => LET idx == Head(locals.idx_to_process)
          IN  /\ pc' = "while"
              /\ locals'.processed = [locals.processed EXCEPT ![idx] = TRUE]
              /\ locals'.flags = locals.flags
              /\ ~locals'.flags[idx]]_vars

\* a station with a temporal jump was popped and skipped while another
\* station was still waiting
C16_Witness ==
    /\ pc = "while"
    /\ \E i \in locals.popped \ locals.evaluated :
          /\ locals.temporal_flags[i] /\ locals.processed[i] /\ ~locals.flags[i]
    /\ \E j \in SctIdx : ~locals.processed[j]

\* C17: a station with too few neighbours for the consistency test is
\* flagged suspect.
C17_InsufficientFlagged ==
    pc = "returned" =>
        \A i \in locals.popped \ locals.evaluated : ret.flags[i]

\* C18: once a station is evaluated every station within inner_radius of
\* it is processed, and a station never popped is processed and not flagged
\* at return.
C18_InnerRadiusCollapse ==
    /\ pc \notin {"call"} =>
          \A i \in locals.evaluated : \A j \in SctIdx :
              Abs(args.lons[j] - args.lons[i]) <= args.p.inner_radius
                  => locals.processed[j]
    /\ pc = "returned" =>
          \A j \in SctIdx \ locals.popped : locals.processed[j] /\ ~ret.flags[j]

\* a call returned in which a station with a temporal jump was never
\* popped and is not flagged, next to an evaluated station
C18_Witness ==
    /\ pc = "returned"
    /\ \E j \in SctIdx \ locals.popped :
          /\ locals.temporal_flags[j] /\ ~ret.flags[j]
          /\ \E i \in locals.evaluated :
                Abs(args.lons[j] - args.lons[i]) <= args.p.inner_radius

\* C25: whenever the spatial pass evaluates a station, the neighbour list
\* its background is computed from has at most num_max stations, does not
\* contain the station itself, and contains no station flagged earlier in
\* the same call.
C25_NeighbourSet ==
    (pc \in {"while0", "while"} /\ locals.idx_to_process # <<>>
        /\ SctBranch = "evaluate") =>
        LET idx == Head(locals.idx_to_process)
            neighbors_idx == SctNeighbours(args.lats, args.lons, args.alts, idx,
                                           locals.flags, args.p)
        IN  /\ Len(neighbors_idx) <= args.p.num_max
            /\ \A k \in 1..Len(neighbors_idx) :
                  /\ neighbors_idx[k] # idx
                  /\ ~locals.flags[neighbors_idx[k]]

\* a station is about to be evaluated while a station flagged before it lies
\* within its outer radius, and more stations than num_max are in reach
C25_Witness ==
    /\ pc = "while" /\ locals.idx_to_process # <<>>
    /\ SctBranch = "evaluate"
    /\ LET idx == Head(locals.idx_to_process)
           reach == BallGeo(args.lats, args.lons, idx, args.p.outer_radius) \ {idx}
       IN  /\ \E f \in reach : locals.flags[f] /\ f \in locals.evaluated
           /\ Cardinality(reach) > args.p.num_max

\* a bound on the steps the call can still take: the passes not yet begun,
\* each worth one trip per station and its entry and exit, and the stations
\* still in the queue of the current pass
SctRank ==
    LET n == Len(args.values)
        K == args.p.num_iterations
    IN  IF pc = "call" THEN K * (n + 2) + 2
        ELSE IF pc = "for" THEN (K - locals.pass) * (n + 2) + 1
        ELSE IF pc \in {"while0", "while"}
        THEN (K - locals.pass) * (n + 2) + Len(locals.idx_to_process) + 2
        ELSE 0

NotProcessed(processed) == { i \in DOMAIN processed : ~processed[i] }

\* C29: the work loop of the spatial pass terminates: every step of a call
\* lowers a natural number, so no call runs for ever.  In particular every
\* trip through the loop pops a station that was not processed and was never
\* popped before, marks it processed in the skip branch as in the evaluation
\* branch, and leaves strictly fewer unprocessed stations, which are the
\* ones left in the queue.
C29_LoopTerminates ==
    [][/\ SctRank' < SctRank /\ SctRank' >= 0
       /\ (pc \in {"while0", "while"} /\ locals.idx_to_process # <<>>
             /\ pc' = "while")
          => LET idx == Head(locals.idx_to_process)
             IN  /\ ~locals.processed[idx]
                 /\ idx \notin locals.popped
                 /\ locals'.processed[idx]
                 /\ NotProcessed(locals'.processed) \subseteq
                        NotProcessed(locals.processed) \ {idx}
                 /\ \A k \in 1..Len(locals'.idx_to_process) :
                        ~locals'.processed[locals'.idx_to_process[k]]]_vars

\* a call with two passes has returned after both branches were taken and
\* after a station was marked processed without ever being popped
C29_Witness ==
    /\ pc = "returned" /\ args.p.num_iterations = 2
    /\ locals.popped \ locals.evaluated # {}
    /\ locals.evaluated # {}
    /\ \E i \in SctIdx : locals.processed[i] /\ i \notin locals.popped

\* C23: no call of the consistency test ends in a division fault: when the
\* elevation filter leaves a station without neighbours, or the neighbours'
\* standard deviation is zero, the spatial pass still goes on to the next
\* station and the call returns.
C23_NoDivisionFault ==
    pc # "raised"

-----------------------------------------------------------------------------
(* SpecFetch: one chunk of TemperatureFetcher.process_temperature_data:    *)
(* fetch_temperature_data is called once and the caller acts on what it    *)
(* returns.  What the session does is an input: session.get either raises *)
(* a requests exception or gives a response with a status code and a JSON  *)
(* document.  Optional[Dict] is a record [none, dict]; a dictionary is a    *)
(* function on strings, {} is the empty one; temperatures are in tenths.    *)

MaxStationRow == 1

FetchTimestamps == {"1609459200", "1609462800"}

FetchTemperatures == {155, 160}

\* the 'body' objects an answer can carry, the empty one included
FetchBodies ==
    UNION { [keys -> { <<v>> : v \in FetchTemperatures }] : keys \in SUBSET FetchTimestamps }

\* the JSON documents: with a body, or an error document without one
FetchDocuments ==
    { [body |-> b] : b \in FetchBodies } \cup { [error |-> [code |-> <<26>>]] }

FetchStatusCodes == {200, 403, 404, 500}

FetchExceptions == {"none", "ConnectionError", "RetryError"}

None == [none |-> TRUE, dict |-> <<>>]

Some(dict) == [none |-> FALSE, dict |-> dict]

\* data.get('body')
GetBody(data) == IF "body" \in DOMAIN data THEN data.body ELSE <<>>

\* response.raise_for_status() raises HTTPError
RaiseForStatus(status_code) == status_code >= 400 /\ status_code < 600

WholeDocument(data) == Some(data)

\* lines 119-123
BodyOf(data) ==
    IF GetBody(data) = <<>> THEN Some([body |-> <<>>]) ELSE Some(data.body)

\* lines 95-127; outcome is what self.session.get does
fetch_temperature_data(outcome) ==
    IF outcome.raises # "none" THEN None
    ELSE IF outcome.status_code = 403 THEN None
    ELSE IF RaiseForStatus(outcome.status_code) THEN None
    ELSE BodyOf(outcome.json)

InitFetch ==
    /\ pc = "fetch"
    /\ \E e \in FetchExceptions : \E code \in FetchStatusCodes :
       \E doc \in FetchDocuments :
          args = [device_id |-> "device1", module_id |-> "module1",
                  outcome |-> [raises |-> e, status_code |-> code, json |-> doc]]
    /\ \E i \in 0..MaxStationRow : locals = [i |-> i, all_data |-> <<>>]
    /\ results = <<>>
    /\ ret = Idle
    /\ ds = Idle /\ params = Idle

\* process_temperature_data line 227
FetchCall ==
    /\ pc = "fetch"
    /\ ret' = fetch_temperature_data(args.outcome)
    /\ pc' = "fetched"
    /\ UNCHANGED <<ds, params, results, locals, args>>

\* process_temperature_data lines 229-230 and process_station_list lines
\* 179-186: None stops the station loop and the progress file is written
RateLimitPause ==
    /\ pc = "fetched"
    /\ ret.none
    /\ results' = [last_station |-> locals.i, message |-> "Paused due to rate limit"]
    /\ pc' = "paused"
    /\ UNCHANGED <<ds, params, locals, args, ret>>

\* process_temperature_data lines 232-251: a non-empty dictionary is kept
ChunkDone ==
    /\ pc = "fetched"
    /\ ~ret.none
    /\ locals' = [locals EXCEPT !.all_data =
                     IF ret.dict # <<>> THEN Append(@, ret.dict) ELSE @]
    /\ pc' = "next_chunk"
    /\ UNCHANGED <<ds, params, results, args, ret>>

NextFetch == FetchCall \/ RateLimitPause \/ ChunkDone

SpecFetch == InitFetch /\ [][NextFetch]_vars

\* C24: when the request does not raise, the status is a success status and
\* the answer has a non-empty body, fetch_temperature_data returns exactly
\* that body; when the status is 403 or the request raises it returns None,
\* and on None the caller stops and writes its progress checkpoint.
C24_FetchResult ==
    LET o == args.outcome
    IN  /\ pc = "fetched" =>
              /\ (/\ o.raises = "none"
                  /\ o.status_code \in 200..299
                  /\ "body" \in DOMAIN o.json
                  /\ o.json.body # <<>>)
                    => (~ret.none /\ ret.dict = o.json.body)
              /\ (o.raises # "none" \/ o.status_code = 403) => ret.none
        /\ pc = "paused" =>
              /\ o.raises # "none" \/ o.status_code \in 400..599
              /\ results.last_station = locals.i
        /\ pc = "next_chunk" =>
              o.raises = "none" /\ o.status_code # 403

\* a successful answer with two measurements has been returned as it came
C24_Witness ==
    /\ pc = "next_chunk"
    /\ args.outcome.status_code = 200
    /\ "body" \in DOMAIN args.outcome.json
    /\ DOMAIN args.outcome.json.body = FetchTimestamps
    /\ locals.all_data = <<args.outcome.json.body>>

====
